---- MODULE Spec2Model ----
(***************************************************************************)
(* Model of app.py, the Streamlit page "Diabetes 30-Day Readmission        *)
(* Predictor": a form of ten clinical questions, map_inputs_to_features    *)
(* (the feature encoder), the call of the pre-trained booster, and the     *)
(* block that turns the returned probability into a risk index, a risk     *)
(* level and an advice string.                                             *)
(*                                                                         *)
(* A script run is modelled step by step (pc).  A press of the button or   *)
(* a rerun request is queued (pending); it starts a run when none is       *)
(* executing, and stops the executing run at its next st.* call.  A run    *)
(* executes the script from the top: lines 27-65 render the form, line 121 *)
(* encodes, lines 123-124 score, lines 126-142 classify, line 144 renders  *)
(* the risk box and lines 157-166 render the SHAP expander, one step for   *)
(* each st.* call, at which a queued request stops the run.                *)
(*                                                                         *)
(* xgboost and model/safe_model.json are not part of the repository.       *)
(* Booster.predict returns float32 values; which ones, and whether they    *)
(* lie in [0, 1], is decided by the model file, so Predict draws the       *)
(* answer from the float32 values nearest to a grid of decimals that       *)
(* extends beyond both ends of [0, 1].  xgb.DMatrix rejects a DataFrame    *)
(* with a column of Python strings (ValueError); a build of the library    *)
(* that accepts it scores the row, so both outcomes are steps.  shap and   *)
(* matplotlib are not part of the repository either: their calls (lines    *)
(* 158, 162-163) return or raise.                                          *)
(* load_model and the SHAP explainer (lines 11-22) are cached, read-only   *)
(* and bind nothing the steps below write; they are not part of the state. *)
(***************************************************************************)
EXTENDS Integers, Sequences, FiniteSets, TLC

VARIABLES
    pending,     \* the queued request <<widget values, button pressed>> (<<>>: none)
    form,        \* the values the ten widgets of patient_form return
    submitted,   \* what st.form_submit_button returned in this script run
    pc,          \* where the script run stands
    X,           \* the row built by map_inputs_to_features (<<>>: not bound)
    prob,        \* the float <<m, e>>, worth m / 2^e (<<>>: not bound)
    risk_index,  \* -1: not bound
    risk_level,  \* "": not bound
    color,
    advice,
    shown,       \* the risk box rendered on the page (<<>>: nothing rendered)
    trace        \* history: the presses and the steps executed so far, in order

vars == <<pending, form, submitted, pc, X, prob, risk_index, risk_level, color, advice,
          shown, trace>>

(***************************************************************************)
(* Bounds of the model.                                                    *)
(***************************************************************************)
\* Submitted forms differ from the widgets' defaults in at most MaxEdits widgets.
MaxEdits == 2
\* Presses of the button in one session.
MaxSubmissions == 2
\* The booster's answers are the float32 values nearest to n / PScale,
\* n in -PMargin..PScale + PMargin.
PScale == 200
PMargin == 10

(***************************************************************************)
(* Helpers.                                                                *)
(***************************************************************************)
Range(s) == {s[i] : i \in 1..Len(s)}

Max(a, b) == IF a >= b THEN a ELSE b

RECURSIVE Pow2(_)
Pow2(k) == IF k <= 0 THEN 1 ELSE 2 * Pow2(k - 1)

\* Python values held by the row: an int, a str, or the float num / den.
PyInt(v) == <<"int", v>>
PyStr(s) == <<"str", s>>
PyFloat(num, den) == <<"float", num, den>>

(***************************************************************************)
(* The form (lines 40-65).  A selectbox returns one of its options and     *)
(* starts on the first; a slider or number_input returns an integer        *)
(* between its minimum and maximum and starts on its default.              *)
(***************************************************************************)
age_options == <<"[40-50)", "[50-60)", "[60-70)", "[70-80)", "[80-90)", "[90-100)">>

time_in_hospital_min == 1
time_in_hospital_max == 14
time_in_hospital_default == 4

a1c_options == <<"Norm", ">7", ">8">>

primary_dx_min == 100
primary_dx_max == 999
primary_dx_default == 250

num_meds_min == 1
num_meds_max == 30
num_meds_default == 10

num_procedures_min == 0
num_procedures_max == 6
num_procedures_default == 1

prior_inpatient_min == 0
prior_inpatient_max == 10
prior_inpatient_default == 0

discharge_options == <<"Home", "Rehab", "Skilled Nursing", "Other">>

medication_change_options == <<"Yes", "No">>

insulin_status_options == <<"No", "Steady", "Up", "Down">>

\* The diagnosis codes tried: the ends of the number_input's range, its
\* default and one code on each side of the default.
primary_dx_samples ==
    {primary_dx_min, primary_dx_default - 1, primary_dx_default,
     primary_dx_default + 1, primary_dx_max}

\* The values each widget can return.
WidgetValues ==
    [age               |-> Range(age_options),
     time_in_hospital  |-> time_in_hospital_min..time_in_hospital_max,
     a1c               |-> Range(a1c_options),
     primary_dx        |-> primary_dx_samples,
     num_meds          |-> num_meds_min..num_meds_max,
     num_procedures    |-> num_procedures_min..num_procedures_max,
     prior_inpatient   |-> prior_inpatient_min..prior_inpatient_max,
     discharge         |-> Range(discharge_options),
     medication_change |-> Range(medication_change_options),
     insulin_status    |-> Range(insulin_status_options)]

\* The widgets' values when the page is first rendered.
Defaults ==
    [age               |-> age_options[1],
     time_in_hospital  |-> time_in_hospital_default,
     a1c               |-> a1c_options[1],
     primary_dx        |-> primary_dx_default,
     num_meds          |-> num_meds_default,
     num_procedures    |-> num_procedures_default,
     prior_inpatient   |-> prior_inpatient_default,
     discharge         |-> discharge_options[1],
     medication_change |-> medication_change_options[1],
     insulin_status    |-> insulin_status_options[1]]

\* The settings of one widget: <<widget, value>>.
WidgetChoices ==
    UNION {{<<w, v>> : v \in WidgetValues[w]} : w \in DOMAIN WidgetValues}

\* The forms that differ from the defaults in at most k widgets.
RECURSIVE Edits(_)
Edits(k) ==
    IF k <= 0 THEN {Defaults}
    ELSE {[f EXCEPT ![c[1]] = c[2]] : f \in Edits(k - 1), c \in WidgetChoices}

\* Every widget on its last option or its maximum.
Extremes ==
    [age               |-> age_options[Len(age_options)],
     time_in_hospital  |-> time_in_hospital_max,
     a1c               |-> a1c_options[Len(a1c_options)],
     primary_dx        |-> primary_dx_max,
     num_meds          |-> num_meds_max,
     num_procedures    |-> num_procedures_max,
     prior_inpatient   |-> prior_inpatient_max,
     discharge         |-> discharge_options[Len(discharge_options)],
     medication_change |-> medication_change_options[Len(medication_change_options)],
     insulin_status    |-> insulin_status_options[Len(insulin_status_options)]]

\* The forms submitted to the encoder alone, and to the whole script.
FormInputs == Edits(MaxEdits)
FormSamples == {Defaults, Extremes}

(***************************************************************************)
(* map_inputs_to_features (lines 70-115).  The lookup tables are Python    *)
(* dicts: functions whose domain is the set of keys.                       *)
(***************************************************************************)
\* age_map with each bucket's lower end instead of its midpoint.
age_map_lower_ends ==
    ("[40-50)" :> 40) @@ ("[50-60)" :> 50) @@ ("[60-70)" :> 60) @@
    ("[70-80)" :> 70) @@ ("[80-90)" :> 80) @@ ("[90-100)" :> 90)

age_map ==
    ("[40-50)" :> 45) @@ ("[50-60)" :> 55) @@ ("[60-70)" :> 65) @@
    ("[70-80)" :> 75) @@ ("[80-90)" :> 85) @@ ("[90-100)" :> 95)

\* discharge_map without the key of the last option.
discharge_map_without_other ==
    ("Home" :> 1) @@ ("Rehab" :> 3) @@ ("Skilled Nursing" :> 5)

discharge_map ==
    ("Home" :> 1) @@ ("Rehab" :> 3) @@ ("Skilled Nursing" :> 5) @@ ("Other" :> 6)

a1c_map == ("Norm" :> 0) @@ (">7" :> 1) @@ (">8" :> 2)

insulin_map == ("No" :> 0) @@ ("Steady" :> 1) @@ ("Up" :> 2) @@ ("Down" :> 3)

change_map == ("Yes" :> 1) @@ ("No" :> 0)

\* had_prior_visit with the comparison off by one.
had_prior_visit_above_one(prior_inpatient) == IF prior_inpatient > 1 THEN 1 ELSE 0

\* 1 if prior_inpatient > 0 else 0 (line 108).
had_prior_visit(prior_inpatient) == IF prior_inpatient > 0 THEN 1 ELSE 0

\* The divisor without its floor of 1.
ProcedurePerDayDenUnfloored(time_in_hospital) == time_in_hospital

\* max(time_in_hospital, 1), the divisor of procedure_per_day (line 110).
ProcedurePerDayDen(time_in_hospital) == Max(time_in_hospital, 1)

\* The dict literal of lines 87-113: the columns in insertion order.
Row(f) ==
    << <<"age",                      PyStr(f.age)>>,
       <<"race",                     PyInt(0)>>,
       <<"gender",                   PyInt(0)>>,
       <<"time_in_hospital",         PyInt(f.time_in_hospital)>>,
       <<"num_lab_procedures",       PyInt(40)>>,
       <<"num_procedures",           PyInt(f.num_procedures)>>,
       <<"num_medications",          PyInt(f.num_meds)>>,
       <<"number_outpatient",        PyInt(0)>>,
       <<"number_inpatient",         PyInt(f.prior_inpatient)>>,
       <<"number_emergency",         PyInt(0)>>,
       <<"admission_type_id",        PyInt(1)>>,
       <<"discharge_disposition_id", PyInt(discharge_map[f.discharge])>>,
       <<"admission_source_id",      PyInt(1)>>,
       <<"diag_1",                   PyInt(f.primary_dx)>>,
       <<"diag_2",                   PyInt(250)>>,
       <<"diag_3",                   PyInt(250)>>,
       <<"A1Cresult",                PyInt(a1c_map[f.a1c])>>,
       <<"diabetesMed",              PyInt(1)>>,
       <<"insulin",                  PyInt(insulin_map[f.insulin_status])>>,
       <<"change",                   PyInt(change_map[f.medication_change])>>,
       <<"had_prior_visit",          PyInt(had_prior_visit(f.prior_inpatient))>>,
       <<"total_visits",             PyInt(f.prior_inpatient)>>,
       <<"procedure_per_day",        PyFloat(f.num_procedures,
                                           ProcedurePerDayDen(f.time_in_hospital))>>,
       <<"age_group_numeric",        PyInt(age_map[f.age])>>,
       <<"gender_race_combo",        PyInt(0)>> >>

\* What Python raises while it evaluates the dict literal, in evaluation
\* order: a KeyError for a key its table lacks, a ZeroDivisionError for a
\* zero divisor.  <<>>: nothing is raised.
Raised(f) ==
    IF f.discharge \notin DOMAIN discharge_map THEN <<"KeyError", f.discharge>>
    ELSE IF f.a1c \notin DOMAIN a1c_map THEN <<"KeyError", f.a1c>>
    ELSE IF f.insulin_status \notin DOMAIN insulin_map
        THEN <<"KeyError", f.insulin_status>>
    ELSE IF f.medication_change \notin DOMAIN change_map
        THEN <<"KeyError", f.medication_change>>
    ELSE IF ProcedurePerDayDen(f.time_in_hospital) = 0
        THEN <<"ZeroDivisionError", "division by zero">>
    ELSE IF f.age \notin DOMAIN age_map THEN <<"KeyError", f.age>>
    ELSE <<>>

\* The row returned, or a one-column row holding the exception raised.
map_inputs_to_features(f) ==
    IF Raised(f) = <<>> THEN Row(f) ELSE << <<"raised", Raised(f)>> >>

IsRaised(row) == Len(row) = 1 /\ row[1][1] = "raised"

\* The columns' names in order, and the value of the column called name.
Columns(row) == [i \in 1..Len(row) |-> row[i][1]]
Field(row, name) == row[CHOOSE i \in 1..Len(row) : row[i][1] = name][2]
IsNumeric(v) == v[1] \in {"int", "float"}

\* The DataFrame has a column of dtype object: one that holds a str.
HasObjectColumn(row) == \E i \in 1..Len(row) : ~IsNumeric(row[i][2])

(***************************************************************************)
(* The inference call (lines 123-124): prob = float(model.predict(...)[0]).*)
(* Booster.predict returns float32; float() widens it to a double without  *)
(* changing its value.  A float32 is <<m, e>>, worth m / 2^e, with         *)
(* 2^23 <= |m| < 2^24 (or m = 0, e = 0).                                   *)
(***************************************************************************)
\* Long division of n by d carried on bit by bit until the quotient has 24
\* bits: <<quotient, remainder, bits after the binary point>>.
RECURSIVE NormDiv(_, _, _, _)
NormDiv(q, r, d, e) ==
    IF q >= Pow2(23) THEN <<q, r, e>>
    ELSE NormDiv(2 * q + (IF 2 * r >= d THEN 1 ELSE 0), (2 * r) % d, d, e + 1)

\* The float32 nearest to n / d (a tie goes to the even mantissa).
Float32(n, d) ==
    IF n = 0 THEN <<0, 0>>
    ELSE LET a == IF n < 0 THEN -n ELSE n
             t == NormDiv(a \div d, a % d, d, 0)
             up == 2 * t[2] > d \/ (2 * t[2] = d /\ t[1] % 2 = 1)
             m == IF up THEN t[1] + 1 ELSE t[1]
             mm == IF m = Pow2(24) THEN Pow2(23) ELSE m
             ee == IF m = Pow2(24) THEN t[3] - 1 ELSE t[3]
         IN  <<IF n < 0 THEN -mm ELSE mm, ee>>

Probabilities == {Float32(n, PScale) : n \in (-PMargin)..(PScale + PMargin)}

(***************************************************************************)
(* risk_index = int(prob * 100) (line 126).  prob has a 24-bit mantissa,   *)
(* so the double product prob * 100 is exact (31 bits), and int() drops    *)
(* its fraction, towards zero.                                             *)
(***************************************************************************)
\* x \div 2^e for x >= 0.
RECURSIVE ShiftRight(_, _)
ShiftRight(x, e) == IF e <= 0 THEN x ELSE ShiftRight(x \div 2, e - 1)

\* round(prob * 100) instead of int(prob * 100).
RiskIndexRounded(p) ==
    LET a == IF p[1] < 0 THEN -p[1] ELSE p[1]
        r == IF p[2] = 0 THEN 100 * a
             ELSE ShiftRight(ShiftRight(100 * a, p[2] - 1) + 1, 1)
    IN  IF p[1] < 0 THEN -r ELSE r

RiskIndex(p) ==
    IF p[1] >= 0 THEN ShiftRight(100 * p[1], p[2])
    ELSE -ShiftRight(100 * (-p[1]), p[2])

(***************************************************************************)
(* The if / elif / else of lines 131-142.                                  *)
(***************************************************************************)
\* The if / elif / else with inclusive upper bounds (<= 30, <= 60).
ClassificationInclusive(ri) ==
    IF ri <= 30 THEN
        [risk_level |-> "LOW", color |-> "green",
         advice |-> "Continue routine follow-up and outpatient care."]
    ELSE IF ri <= 60 THEN
        [risk_level |-> "MEDIUM", color |-> "orange",
         advice |-> "Consider enhanced discharge planning and close follow-up."]
    ELSE
        [risk_level |-> "HIGH", color |-> "red",
         advice |-> "Recommend intensive transitional care and early follow-up within 7 days."]

\* The if / elif / else with the bodies of its last two branches exchanged.
ClassificationExchanged(ri) ==
    IF ri < 30 THEN
        [risk_level |-> "LOW", color |-> "green",
         advice |-> "Continue routine follow-up and outpatient care."]
    ELSE IF ri < 60 THEN
        [risk_level |-> "HIGH", color |-> "red",
         advice |-> "Recommend intensive transitional care and early follow-up within 7 days."]
    ELSE
        [risk_level |-> "MEDIUM", color |-> "orange",
         advice |-> "Consider enhanced discharge planning and close follow-up."]

Classification(ri) ==
    IF ri < 30 THEN
        [risk_level |-> "LOW", color |-> "green",
         advice |-> "Continue routine follow-up and outpatient care."]
    ELSE IF ri < 60 THEN
        [risk_level |-> "MEDIUM", color |-> "orange",
         advice |-> "Consider enhanced discharge planning and close follow-up."]
    ELSE
        [risk_level |-> "HIGH", color |-> "red",
         advice |-> "Recommend intensive transitional care and early follow-up within 7 days."]

(***************************************************************************)
(* The script runs.                                                        *)
(***************************************************************************)
Submissions == Cardinality({i \in 1..Len(trace) : trace[i] = "submit"})

\* No run is executing: none has started, or the last one has reached the
\* end of the script, was ended by an exception, or was stopped.
RunOver == pc \in {"idle", "displayed", "raised", "stopped"}

\* The names bound inside "if submitted:" and what is rendered, at the start
\* of a script run: a run starts from the top and binds them anew.
Unbound ==
    /\ X' = <<>>
    /\ prob' = <<>>
    /\ risk_index' = -1
    /\ risk_level' = ""
    /\ color' = ""
    /\ advice' = ""
    /\ shown' = <<>>

Init ==
    /\ pending = <<>>
    /\ form = Defaults
    /\ submitted = FALSE
    /\ pc = "idle"
    /\ X = <<>>
    /\ prob = <<>>
    /\ risk_index = -1
    /\ risk_level = ""
    /\ color = ""
    /\ advice = ""
    /\ shown = <<>>
    /\ trace = <<>>

\* The user presses "Predict Readmission Risk" (line 65) with the widgets
\* set to one of forms, whether or not a run is executing: the request is
\* queued, and replaces a request still in the queue.
Submit(forms) ==
    /\ Submissions < MaxSubmissions
    /\ \E f \in forms : pending' = <<f, TRUE>>
    /\ trace' = Append(trace, "submit")
    /\ UNCHANGED <<form, submitted, pc, X, prob, risk_index, risk_level, color,
                   advice, shown>>

\* The user asks for a rerun of the page without pressing the button; a
\* request already in the queue absorbs it.
Rerun ==
    /\ pending = <<>>
    /\ pending' = <<form, FALSE>>
    /\ UNCHANGED <<form, submitted, pc, X, prob, risk_index, risk_level, color,
                   advice, shown, trace>>

\* With no run executing, the queued request starts one, at the top of the
\* script.
Start ==
    /\ RunOver
    /\ pending # <<>>
    /\ form' = pending[1]
    /\ submitted' = pending[2]
    /\ pending' = <<>>
    /\ pc' = "top"
    /\ Unbound
    /\ UNCHANGED trace

\* Lines 27-65: the page and the form are rendered by st.* calls, which
\* stop the run when a request is queued; otherwise the widgets return
\* their values and line 120 is reached, which ends the run unless the
\* button was pressed.
RenderForm ==
    /\ pc = "top"
    /\ pc' = IF pending # <<>> THEN "stopped"
             ELSE IF submitted THEN "submitted" ELSE "idle"
    /\ UNCHANGED <<pending, form, submitted, X, prob, risk_index, risk_level,
                   color, advice, shown, trace>>

\* Lines 120-121: if submitted: X = map_inputs_to_features().  An exception
\* ends the run.
Encode ==
    /\ pc = "submitted"
    /\ submitted
    /\ X' = map_inputs_to_features(form)
    /\ pc' = IF IsRaised(X') THEN "raised" ELSE "encoded"
    /\ trace' = Append(trace, "encode")
    /\ UNCHANGED <<pending, form, submitted, prob, risk_index, risk_level, color,
                   advice, shown>>

\* Lines 123-124: prob = float(model.predict(xgb.DMatrix(X))[0]), one of
\* answers.
Predict(answers) ==
    /\ pc = "encoded"
    /\ \E p \in answers : prob' = p
    /\ pc' = "scored"
    /\ trace' = Append(trace, "predict")
    /\ UNCHANGED <<pending, form, submitted, X, risk_index, risk_level, color,
                   advice, shown>>

\* Line 123: xgb.DMatrix(X) raises ValueError for a column of dtype object,
\* which ends the run with nothing scored.
PredictRaises ==
    /\ pc = "encoded"
    /\ HasObjectColumn(X)
    /\ pc' = "raised"
    /\ UNCHANGED <<pending, form, submitted, X, prob, risk_index, risk_level,
                   color, advice, shown, trace>>

\* Lines 126-142.
Classify ==
    /\ pc = "scored"
    /\ risk_index' = RiskIndex(prob)
    /\ risk_level' = Classification(risk_index').risk_level
    /\ color' = Classification(risk_index').color
    /\ advice' = Classification(risk_index').advice
    /\ pc' = "classified"
    /\ trace' = Append(trace, "classify")
    /\ UNCHANGED <<pending, form, submitted, X, prob, shown>>

\* Line 144: st.markdown stops the run when a request is queued; otherwise
\* the risk box is rendered.
Display ==
    /\ pc = "classified"
    /\ IF pending # <<>>
       THEN /\ pc' = "stopped"
            /\ UNCHANGED <<shown, trace>>
       ELSE /\ shown' = <<risk_index, risk_level, advice, color>>
            /\ pc' = "boxed"
            /\ trace' = Append(trace, "display")
    /\ UNCHANGED <<pending, form, submitted, X, prob, risk_index, risk_level,
                   color, advice>>

\* One st.* call of the SHAP block, between the positions from and to: it
\* stops the run when a request is queued, and renders otherwise.  The box
\* of line 144 stays on the page.
Render(from, to) ==
    /\ pc = from
    /\ pc' = IF pending # <<>> THEN "stopped" ELSE to
    /\ UNCHANGED <<pending, form, submitted, X, prob, risk_index, risk_level,
                   color, advice, shown, trace>>

\* A library call of the SHAP block at the position at raises: the run
\* ends, with the box on the page.
Raise(at) ==
    /\ pc = at
    /\ pc' = "raised"
    /\ UNCHANGED <<pending, form, submitted, X, prob, risk_index, risk_level,
                   color, advice, shown, trace>>

\* Line 157: with st.expander(...).
Expander == Render("boxed", "expander")

\* Line 158: shap_values = explainer.shap_values(X) returns; it binds a name
\* that only line 163 reads.
ShapValues ==
    /\ pc = "expander"
    /\ pc' = "explained"
    /\ UNCHANGED <<pending, form, submitted, X, prob, risk_index, risk_level,
                   color, advice, shown, trace>>

\* Line 158 raises.
ShapValuesRaises == Raise("expander")

\* Line 160: st.write(...).
Write == Render("explained", "written")

\* Lines 162-164: the figure is drawn, then st.pyplot(fig).
Pyplot == Render("written", "plotted")

\* Lines 162-163: plt.subplots or shap.summary_plot raises.
SummaryPlotRaises == Raise("written")

\* Line 166: st.caption(...), after which the script has reached its end.
Caption == Render("plotted", "displayed")

\* The whole script, on the forms of FormSamples.
Next ==
    \/ Submit(FormSamples)
    \/ Rerun
    \/ Start
    \/ RenderForm
    \/ Encode
    \/ Predict(Probabilities)
    \/ PredictRaises
    \/ Classify
    \/ Display
    \/ Expander
    \/ ShapValues
    \/ ShapValuesRaises
    \/ Write
    \/ Pyplot
    \/ SummaryPlotRaises
    \/ Caption

Spec == Init /\ [][Next]_vars

\* The encoder alone, on every form of FormInputs: the run of a submission
\* stands at line 120.
InitEncoder ==
    /\ pending = <<>>
    /\ form \in FormInputs
    /\ submitted = TRUE
    /\ pc = "submitted"
    /\ X = <<>>
    /\ prob = <<>>
    /\ risk_index = -1
    /\ risk_level = ""
    /\ color = ""
    /\ advice = ""
    /\ shown = <<>>
    /\ trace = <<"submit">>

NextEncoder == Encode

SpecEncoder == InitEncoder /\ [][NextEncoder]_vars

\* The risk block and the box alone (lines 126-152), on every answer: the
\* run stands after line 124 of a submission of the default form.
InitRisk ==
    /\ pending = <<>>
    /\ form = Defaults
    /\ submitted = TRUE
    /\ pc = "scored"
    /\ X = map_inputs_to_features(Defaults)
    /\ prob \in Probabilities
    /\ risk_index = -1
    /\ risk_level = ""
    /\ color = ""
    /\ advice = ""
    /\ shown = <<>>
    /\ trace = <<"submit", "encode", "predict">>

NextRisk ==
    \/ Classify
    \/ Display

SpecRisk == InitRisk /\ [][NextRisk]_vars

(***************************************************************************)
(* Properties.                                                             *)
(***************************************************************************)
\* The float p is the booster's answer nearest to a / b.
IsProb(p, a, b) == p = Float32(a, b)

\* The float p lies in [0, 1].
InUnit(p) == p[1] = 0 \/ (p[1] > 0 /\ (p[2] > 23 \/ p = <<Pow2(23), 23>>))

\* Lines 126-142 have bound the risk index, the level and the advice.
Classified == risk_level # ""

\* The schema of the feature record, as documented.
DocumentedFields ==
    <<"age", "race", "gender", "time_in_hospital", "num_lab_procedures",
      "num_procedures", "num_medications", "number_outpatient", "number_inpatient",
      "number_emergency", "admission_type_id", "discharge_disposition_id",
      "admission_source_id", "diag_1", "diag_2", "diag_3", "A1Cresult",
      "diabetesMed", "insulin", "change", "had_prior_visit", "total_visits",
      "procedure_per_day", "age_group_numeric", "gender_race_combo">>

\* C1: for every form the UI allows, the encoded record has exactly the 25
\* documented fields, in the documented order, and every value is numeric.
\* (The code stores the age bucket itself, a string, in the field "age".)
C1_DocumentedNumericRecord ==
    pc = "encoded" =>
        /\ Columns(X) = DocumentedFields
        /\ \A i \in 1..Len(X) : IsNumeric(X[i][2])

\* The advice of each tier.
TierAdvice ==
    [LOW    |-> "Continue routine follow-up and outpatient care.",
     MEDIUM |-> "Consider enhanced discharge planning and close follow-up.",
     HIGH   |-> "Recommend intensive transitional care and early follow-up within 7 days."]

\* C2 as stated: every risk index gets exactly one tier, by strict upper
\* bounds: below 30 LOW, from 30 and below 60 MEDIUM, from 60 HIGH; the
\* advice bound and shown is the fixed one of that tier; probability 0.65
\* gives risk index 65 and tier HIGH.
C2_SixtyFive ==
    Classified =>
        /\ risk_level \in {"LOW", "MEDIUM", "HIGH"}
        /\ risk_level = "LOW" <=> risk_index < 30
        /\ risk_level = "MEDIUM" <=> (30 <= risk_index /\ risk_index < 60)
        /\ risk_level = "HIGH" <=> risk_index >= 60
        /\ advice = TierAdvice[risk_level]
        /\ shown # <<>> => (shown[2] = risk_level /\ shown[3] = TierAdvice[risk_level])
        /\ IsProb(prob, 65, 100) => (risk_index = 65 /\ risk_level = "HIGH")

\* C2 amended: every risk index gets exactly one tier, by strict upper
\* bounds: below 30 LOW, from 30 and below 60 MEDIUM, from 60 HIGH; the
\* advice bound and shown is the fixed one of that tier; the booster's
\* answer nearest to 0.65 gives risk index 64 and tier HIGH.
C2_StrictUpperBoundTiers ==
    Classified =>
        /\ risk_level \in {"LOW", "MEDIUM", "HIGH"}
        /\ risk_level = "LOW" <=> risk_index < 30
        /\ risk_level = "MEDIUM" <=> (30 <= risk_index /\ risk_index < 60)
        /\ risk_level = "HIGH" <=> risk_index >= 60
        /\ advice = TierAdvice[risk_level]
        /\ shown # <<>> => (shown[2] = risk_level /\ shown[3] = TierAdvice[risk_level])
        /\ IsProb(prob, 65, 100) => (risk_index = 64 /\ risk_level = "HIGH")

C2_Witness ==
    /\ pc = "boxed"
    /\ IsProb(prob, 65, 100)
    /\ risk_index = 64
    /\ shown[2] = "HIGH"
    /\ shown[3] = "Recommend intensive transitional care and early follow-up within 7 days."

\* C3 as stated: probability 0.30 gives risk index 30 and tier LOW.
C3_BoundaryIsLow ==
    (Classified /\ IsProb(prob, 30, 100)) => (risk_index = 30 /\ risk_level = "LOW")

\* C3 amended: probability 0.30 gives risk index 30, and under the strict
\* upper bounds (only an index below 30 is LOW) the tier is MEDIUM.
C3_BoundaryIsMedium ==
    (Classified /\ IsProb(prob, 30, 100)) => (risk_index = 30 /\ risk_level = "MEDIUM")

C3_Witness == pc = "classified" /\ IsProb(prob, 30, 100) /\ risk_index = 30

\* The lowest k bits of x >= 0 are zero.
RECURSIVE LowBitsZero(_, _)
LowBitsZero(x, k) == k <= 0 \/ (x % 2 = 0 /\ LowBitsZero(x \div 2, k - 1))

\* The integer nearest to p * 100, for p >= 0; a tie goes to the even one,
\* as Python's round does.
RoundNearest(p) ==
    IF p[2] = 0 THEN 100 * p[1]
    ELSE LET halves == ShiftRight(100 * p[1], p[2] - 1)
             q == halves \div 2
             tie == LowBitsZero(100 * p[1], p[2] - 1)
         IN  IF halves % 2 = 0 THEN q
             ELSE IF tie /\ q % 2 = 0 THEN q ELSE q + 1

\* C4 as stated: for a probability in [0, 1] the risk index is an integer
\* in 0..100 and is p * 100 rounded to the nearest integer.
C4_RoundsToNearest ==
    (Classified /\ InUnit(prob)) =>
        (risk_index \in 0..100 /\ risk_index = RoundNearest(prob))

\* C4 amended: for a probability in [0, 1] the risk index is an integer in
\* 0..100 and is p * 100 with its fraction dropped, never rounded up: the
\* largest integer not above p * 100.  (With p = m / 2^e the bounds
\* ri <= 100 p < ri + 1 are compared after division by 4; for e > 30,
\* 100 p is below 1.)
C4_Truncates ==
    (Classified /\ InUnit(prob)) =>
        /\ risk_index \in 0..100
        /\ IF prob[1] = 0 \/ prob[2] > 30 THEN risk_index = 0
           ELSE /\ risk_index * Pow2(prob[2] - 2) <= 25 * prob[1]
                /\ 25 * prob[1] < (risk_index + 1) * Pow2(prob[2] - 2)

C4_Witness ==
    /\ pc = "classified"
    /\ IsProb(prob, 119, 200)
    /\ risk_index = 59
    /\ risk_level = "MEDIUM"

TierRank == [LOW |-> 1, MEDIUM |-> 2, HIGH |-> 3]

\* p1 < p2 for positive floats: the larger exponent is the smaller float.
PositiveLess(p1, p2) == p1[2] > p2[2] \/ (p1[2] = p2[2] /\ p1[1] < p2[1])

\* p1 < p2.
ProbLess(p1, p2) ==
    IF p1[1] < 0 THEN p2[1] >= 0 \/ PositiveLess(<<-p2[1], p2[2]>>, <<-p1[1], p1[2]>>)
    ELSE IF p1[1] = 0 THEN p2[1] > 0
    ELSE p2[1] > 0 /\ PositiveLess(p1, p2)

\* C5: the classifier is monotonic: a lower probability never gets a higher
\* tier than a higher probability (for every pair of answers, those outside
\* [0, 1] included).
C5_Monotonic ==
    pc = "classified" =>
        \A q \in Probabilities :
            LET tier == Classification(RiskIndex(q)).risk_level
            IN  /\ ProbLess(q, prob) => TierRank[tier] <= TierRank[risk_level]
                /\ ProbLess(prob, q) => TierRank[risk_level] <= TierRank[tier]

C5_Witness ==
    /\ pc = "classified"
    /\ risk_level = "MEDIUM"
    /\ \E q \in Probabilities :
           ProbLess(q, prob) /\ Classification(RiskIndex(q)).risk_level = "LOW"
    /\ \E q \in Probabilities :
           ProbLess(prob, q) /\ Classification(RiskIndex(q)).risk_level = "HIGH"

\* C6: had_prior_visit is 1 exactly when the count n of prior inpatient
\* visits is above 0, and 0 otherwise; total_visits and number_inpatient
\* are n.
C6_HadPriorVisit ==
    pc = "encoded" =>
        LET n == form.prior_inpatient
            hpv == Field(X, "had_prior_visit")
        IN  /\ n >= 0
            /\ hpv \in {PyInt(0), PyInt(1)}
            /\ hpv = PyInt(1) <=> n > 0
            /\ Field(X, "total_visits") = PyInt(n)
            /\ Field(X, "number_inpatient") = PyInt(n)
            /\ n = 0 => (hpv = PyInt(0) /\ Field(X, "total_visits") = PyInt(0))

C6_Witness ==
    /\ pc = "encoded"
    /\ form.prior_inpatient = 3
    /\ Field(X, "had_prior_visit") = PyInt(1)
    /\ Field(X, "total_visits") = PyInt(3)

\* C7: procedure_per_day is the procedure count over max(length of stay, 1):
\* the divisor is at least 1 for every length of stay from 0, is 1 for a
\* length of stay of 0, and a stay of 4 days with 1 procedure gives 1/4.
C7_DivisorAtLeastOne ==
    /\ \A t \in 0..time_in_hospital_max :
           /\ ProcedurePerDayDen(t) >= 1
           /\ ProcedurePerDayDen(t) = IF t = 0 THEN 1 ELSE t
    /\ pc \in {"encoded", "raised"} =>
           LET ppd == Field(X, "procedure_per_day")
           IN  /\ pc = "encoded"
               /\ ppd[1] = "float"
               /\ ppd[2] = form.num_procedures
               /\ ppd[3] >= 1
               /\ ppd[3] = IF form.time_in_hospital >= 1 THEN form.time_in_hospital ELSE 1
               /\ (form.time_in_hospital = 4 /\ form.num_procedures = 1)
                      => ppd = PyFloat(1, 4)

C7_Witness ==
    /\ pc = "encoded"
    /\ form.time_in_hospital = 4
    /\ form.num_procedures = 1
    /\ form.prior_inpatient = 0
    /\ Field(X, "procedure_per_day") = PyFloat(1, 4)

\* C8: the encoder raises nothing on any form the UI can supply: every
\* option of every selectbox is a key of the table it is looked up in.
C8_EncoderTotal ==
    /\ Range(age_options) \subseteq DOMAIN age_map
    /\ Range(discharge_options) \subseteq DOMAIN discharge_map
    /\ Range(a1c_options) \subseteq DOMAIN a1c_map
    /\ Range(insulin_status_options) \subseteq DOMAIN insulin_map
    /\ Range(medication_change_options) \subseteq DOMAIN change_map
    /\ pc # "raised"
    /\ pc = "encoded" => (~IsRaised(X) /\ Len(X) = Len(DocumentedFields))

C8_Witness ==
    /\ pc = "encoded"
    /\ form.discharge = "Other"
    /\ form.age = "[90-100)"
    /\ ~IsRaised(X)
    /\ Field(X, "discharge_disposition_id") = PyInt(6)

\* The steps of one submission, in order.
Pattern == <<"submit", "encode", "predict", "classify", "display">>

Count(step) == Cardinality({i \in 1..Len(trace) : trace[i] = step})

\* C9 as stated: each submission is followed by exactly one encode, then
\* one inference on the encoded record, then one classification, then the
\* display, in that order and never interleaved with another submission's
\* steps; nothing is scored or classified without a submission; a result
\* is on the page only once it has been classified; and a submission starts
\* with none of an earlier submission's values bound.
C9_OneRunPerSubmission ==
    /\ \A i \in 1..Len(trace) : trace[i] = Pattern[((i - 1) % 5) + 1]
    /\ Count("predict") <= Count("submit")
    /\ Count("classify") <= Count("predict")
    /\ (RunOver /\ pending = <<>>) =>
           /\ Count("encode") = Count("submit")
           /\ Count("predict") = Count("submit")
           /\ Count("classify") = Count("submit")
    /\ pc = "submitted" =>
           (X = <<>> /\ prob = <<>> /\ risk_index = -1 /\ risk_level = "" /\ shown = <<>>)
    /\ X # <<>> => X = map_inputs_to_features(form)
    /\ shown # <<>> =>
           /\ Classified
           /\ shown = <<risk_index, risk_level, advice, color>>
           /\ risk_index = RiskIndex(prob)

\* The ends of each age bucket "[a-b)".
AgeBucket ==
    ("[40-50)" :> <<40, 50>>) @@ ("[50-60)" :> <<50, 60>>) @@ ("[60-70)" :> <<60, 70>>) @@
    ("[70-80)" :> <<70, 80>>) @@ ("[80-90)" :> <<80, 90>>) @@ ("[90-100)" :> <<90, 100>>)

\* C10: age_group_numeric is the midpoint of the selected age bucket
\* ("[40-50)" 45, "[70-80)" 75, "[90-100)" 95) and the destination "Home"
\* is discharge_disposition_id 1, whatever the other inputs are.
C10_FixedLookupTables ==
    pc = "encoded" =>
        LET agn == Field(X, "age_group_numeric")
        IN  /\ agn[1] = "int"
            /\ 2 * agn[2] = AgeBucket[form.age][1] + AgeBucket[form.age][2]
            /\ form.age = "[40-50)" => agn = PyInt(45)
            /\ form.age = "[70-80)" => agn = PyInt(75)
            /\ form.age = "[90-100)" => agn = PyInt(95)
            /\ form.discharge = "Home" <=> Field(X, "discharge_disposition_id") = PyInt(1)

C10_Witness ==
    /\ pc = "encoded"
    /\ form.age = "[70-80)"
    /\ form.num_meds = num_meds_max
    /\ Field(X, "age_group_numeric") = PyInt(75)
    /\ Field(X, "discharge_disposition_id") = PyInt(1)

====
